---- MODULE Spec2Model ----
(***************************************************************************)
(* Verification model of the riotapi_local gateway: the pooled upstream    *)
(* clients (client/BaseClient.py, client/HttpxAsyncClient.py), the         *)
(* forwarding engine (routes/_query.py), the lifespan of the application   *)
(* (riotapi.py) and the ttl-cached route functions (routes/AccountV1.py).  *)
(*                                                                         *)
(* Scheduling is the cooperative one of asyncio: an action is the code a   *)
(* task runs from one await to the next.                                   *)
(*                                                                         *)
(* QueryToRiotAPI (_query.py:161) passes the endpoint and the override     *)
(* flag to _PatchCredential under the keyword names path_endpoint and      *)
(* override_credential, while _PatchCredential (_query.py:26) declares     *)
(* them endpoint and override: as written the call raises TypeError before *)
(* the loop is entered. QueryStart has that outcome, and beside it the     *)
(* call with the three arguments bound to the three parameters in order,   *)
(* so that the body of QueryToRiotAPI (_query.py:162-196) is analysed and  *)
(* the routes of _region.py, which reach the pool and the counter through  *)
(* the same steps with one credential, are covered.                        *)
(***************************************************************************)
EXTENDS Integers, Sequences, FiniteSets, TLC

VARIABLES
    POOL,             \* BaseClient._POOL: insertion-ordered dict (host, credential) -> client
    is_closed,        \* httpx client.is_closed, per client object
    num_on_requests,  \* client.num_on_requests, per client object
    nclients,         \* number of client objects constructed so far
    riotClientPool,   \* httpx_riotclient._RIOT_CLIENTPOOL (the dict CleanupRiotClient walks)
    rq,               \* per request task: position and locals of QueryToRiotAPI
    sweep,            \* the task running CleanUpPool: position and locals
    life,             \* riotapi_lifespan: reload task, MAX_REPETITIONS, CURRENT_REPETITIONS
    upstream,         \* what the upstream API answers to each credential
    fn,               \* the configured priorities; a pure function under evaluation
    lp,               \* QueryToRiotAPI's loop over a given sequence of responses
    tc                \* ttl_cache of a route function, its coroutines and callers

vars == <<POOL, is_closed, num_on_requests, nclients, riotClientPool, rq, sweep, life,
          upstream, fn, lp, tc>>

----------------------------------------------------------------------------
(* Bounds of the model *)
MaxReq == 2          \* concurrent request tasks
MaxSweeps == 2       \* CleanUpPool passes

Requests == 1..MaxReq
Clients == 1..MaxReq      \* a call constructs at most one client
NoClient == 0

----------------------------------------------------------------------------
(* HTTP statuses and upstream answers *)
HTTP_500_INTERNAL_SERVER_ERROR == 500
HTTP_429_TOO_MANY_REQUESTS == 429
HTTP_405_METHOD_NOT_ALLOWED == 405
TransportFailure == 0       \* httpx.ConnectError / httpx.TimeoutException: no status at all
Answers == {200, HTTP_429_TOO_MANY_REQUESTS, TransportFailure}

(* CREDENTIALS enum of src/static/static.py and its GetPriority *)
CREDENTIALS == {"LOL", "LOR", "TFT", "VAL", "FULL"}

\* the priority table of static.py, as the runs of the gateway use it
DefaultPriority ==
    [cred \in CREDENTIALS |->
        CASE cred = "FULL" -> 1
          [] cred = "LOL" -> 2
          [] cred = "LOR" -> 3
          [] cred = "TFT" -> 4
          [] cred = "VAL" -> 5]
FnOff == [pc |-> "off", priority |-> DefaultPriority]

\* CREDENTIALS.GetPriority: the rank of a member in the priority table
GetPriority(cred) == fn.priority[cred]

\* CREDENTIALS.__members__.keys(): the names of the members, plain strings
MemberNames == <<"'LOL'", "'LOR'", "'TFT'", "'VAL'", "'FULL'">>
MemberName(cred) ==
    CASE cred = "LOL" -> "'LOL'"
      [] cred = "LOR" -> "'LOR'"
      [] cred = "TFT" -> "'TFT'"
      [] cred = "VAL" -> "'VAL'"
      [] cred = "FULL" -> "'FULL'"
      [] OTHER -> cred

----------------------------------------------------------------------------
(* _PatchCredential, _query.py:26-84 *)

\* an insertion that puts a credential in front of those of equal rank
RECURSIVE InsertByPriority_Front(_, _)
InsertByPriority_Front(sorted, x) ==
    IF sorted = <<>> THEN <<x>>
    ELSE IF GetPriority(Head(sorted)) < GetPriority(x)
         THEN <<Head(sorted)>> \o InsertByPriority_Front(Tail(sorted), x)
         ELSE <<x>> \o sorted

\* list.sort(key=GetPriority): stable insertion sort
RECURSIVE InsertByPriority(_, _)
InsertByPriority(sorted, x) ==
    IF sorted = <<>> THEN <<x>>
    ELSE IF GetPriority(Head(sorted)) <= GetPriority(x)
         THEN <<Head(sorted)>> \o InsertByPriority(Tail(sorted), x)
         ELSE <<x>> \o sorted

RECURSIVE SortByPriority(_)
SortByPriority(s) ==
    IF s = <<>> THEN <<>>
    ELSE InsertByPriority(SortByPriority(SubSeq(s, 1, Len(s) - 1)), s[Len(s)])

\* accept_paths, _query.py:68-74: "riot" lists the names of the members (plain
\* strings), the other prefixes list members
AcceptPrefixes == {"riot", "lol", "lor", "tft", "val"}
accept_paths(entry_name) ==
    CASE entry_name = "riot" -> MemberNames
      [] entry_name = "lol" -> <<"LOL", "FULL">>
      [] entry_name = "lor" -> <<"LOR", "FULL">>
      [] entry_name = "tft" -> <<"TFT", "FULL">>
      [] entry_name = "val" -> <<"VAL", "FULL">>
      [] OTHER -> <<>>

SeqRange(s) == {s[i] : i \in 1..Len(s)}

\* cred in accepted (line 76): a StrEnum member equals itself and the plain string of
\* its value, taken here to be its name
InAccepted(cred, accepted) ==
    cred \in SeqRange(accepted) \/ MemberName(cred) \in SeqRange(accepted)

\* lines 75-77: the list that reaches the sort
Eligible(credentials, entry_name, override) ==
    IF ~override
    THEN SelectSeq(credentials, LAMBDA c : InAccepted(c, accept_paths(entry_name)))
    ELSE accept_paths(entry_name)

\* an error that is swallowed: the selector returns an empty list instead
PatchRaised_Swallowed(err, status) == [ok |-> TRUE, err |-> "none", status |-> 0, list |-> <<>>]

\* result: [ok, err, status, list]. err is "HTTPException" for the HTTPException(500)
\* of lines 61 and 81, and "AttributeError" when the sort of line 83 asks a plain
\* string for GetPriority
PatchRaised(err, status) == [ok |-> FALSE, err |-> err, status |-> status, list |-> <<>>]
_PatchCredential(credentials, entry_name, override) ==
    IF ~(SeqRange(credentials) \subseteq CREDENTIALS)
    THEN PatchRaised("HTTPException", HTTP_500_INTERNAL_SERVER_ERROR)
    ELSE IF entry_name \in AcceptPrefixes
    THEN LET filtered == Eligible(credentials, entry_name, override)
         IN IF SeqRange(filtered) \subseteq CREDENTIALS
            THEN [ok |-> TRUE, err |-> "none", status |-> 0,
                  list |-> SortByPriority(filtered)]
            ELSE PatchRaised("AttributeError", 0)
    ELSE PatchRaised("HTTPException", HTTP_500_INTERNAL_SERVER_ERROR)

----------------------------------------------------------------------------
(* BaseClient.py: the pool *)
\* a lookup that never finds the key
PoolKeys_Missed == {}

PoolKeys == {POOL[i].key : i \in 1..Len(POOL)}
PoolClients == {POOL[i].client : i \in 1..Len(POOL)}
GetFromPool(key) == (CHOOSE i \in 1..Len(POOL) : POOL[i].key = key)
InPool(c) == c \in PoolClients

\* a removal that leaves the dict as it is
RemoveFromPool_Kept(pool, cleanup_list) == pool

\* dict.pop of every key of cleanup_list (HttpxAsyncClient.py:101-102)
RemoveFromPool(pool, cleanup_list) ==
    SelectSeq(pool, LAMBDA e : e.key \notin SeqRange(cleanup_list))


----------------------------------------------------------------------------
(* Inputs of a call of QueryToRiotAPI *)
None == "None"
RequestedLists == {<<"LOL", "FULL">>, <<"LOL">>, <<"LOR">>}
EntryNames == {"lol", ""}
Methods == {"GET", "POST"}
HostInputs == {None, "ASIA"}
PatternInputs == {None, "NORMAL_CONTINENT"}
UsedCredentials == {"LOL", "FULL"}

\* DefaultSettings, inapp.py:13-18
DefaultRegion == "VN2"
DefaultContinent == "ASIA"
DefaultMatchContinent == "SEA"

\* a resolver that knows one default only
ResolveHost_OneDefault(host, host_pattern, inapp_is_settings) ==
    IF ~inapp_is_settings \/ (host = None /\ host_pattern = None)
    THEN [ok |-> FALSE, host |-> None]
    ELSE [ok |-> TRUE, host |-> IF host # None THEN host ELSE DefaultContinent]

\* _GetRiotClientByUserRegion, _query.py:88-110: the host the client is keyed by;
\* ok = FALSE is one of the HTTPException(500) of lines 90, 93, 99 and 110
ResolveHost(host, host_pattern, inapp_is_settings) ==
    IF ~inapp_is_settings THEN [ok |-> FALSE, host |-> None]
    ELSE IF host # None THEN [ok |-> TRUE, host |-> host]
    ELSE IF host_pattern = None THEN [ok |-> FALSE, host |-> None]
    ELSE CASE host_pattern = "REGION" -> [ok |-> TRUE, host |-> DefaultRegion]
           [] host_pattern = "NORMAL_CONTINENT" -> [ok |-> TRUE, host |-> DefaultContinent]
           [] host_pattern = "MATCH_CONTINENT" -> [ok |-> TRUE, host |-> DefaultMatchContinent]
           [] OTHER -> [ok |-> FALSE, host |-> None]

\* outcome of a call, as the caller of QueryToRiotAPI sees it
Pending == [kind |-> "pending", status |-> 0, cred |-> None]
Returned(cred) == [kind |-> "json", status |-> 200, cred |-> cred]
ReturnedNone == [kind |-> "None", status |-> 0, cred |-> None]
Raised(kind, status) == [kind |-> kind, status |-> status, cred |-> None]

IdleRequest ==
    [pc |-> "idle", patched |-> FALSE, creds |-> <<>>, client |-> NoClient,
     attempts |-> <<>>, out |-> Pending]

\* response.raise_for_status() of the response hook (HttpxAsyncClient.py:48) and of
\* _QueryToRiotAPI (_query.py:138): httpx raises HTTPStatusError unless the status is 2xx
IsSuccess(status) == status \div 100 = 2

----------------------------------------------------------------------------
(* QueryToRiotAPI, _query.py:156-196, with _GetRiotClientByUserRegion,       *)
(* WrapGetRiotClient (BaseClient.py:42-56) and _QueryToRiotAPI up to the     *)
(* await of client.get (_query.py:120-124)                                   *)
QueryStart(r) ==
    /\ rq[r].pc = "idle"
    /\ IF r = 1 THEN TRUE ELSE rq[r - 1].pc # "idle"   \* tasks numbered in order of arrival
    /\ life.app = "up"
    /\ \E credentials \in RequestedLists, entry_name \in EntryNames, override \in BOOLEAN :
         LET p == _PatchCredential(credentials, entry_name, override)
             base == [rq[r] EXCEPT !.patched = p.ok, !.creds = p.list]
         IN
         \/ /\ rq' = [rq EXCEPT ![r] = [rq[r] EXCEPT !.pc = "done",    \* line 161 as written
                          !.out = Raised("TypeError", 0)]]
            /\ UNCHANGED <<POOL, is_closed, num_on_requests, nclients>>
         \/ /\ ~p.ok          \* _PatchCredential raised
            /\ rq' = [rq EXCEPT ![r] = [base EXCEPT !.pc = "done",
                          !.out = Raised(p.err, p.status)]]
            /\ UNCHANGED <<POOL, is_closed, num_on_requests, nclients>>
         \/ /\ p.ok /\ p.list = <<>>      \* the loop body never runs; errors is empty
            /\ rq' = [rq EXCEPT ![r] = [base EXCEPT !.pc = "done", !.out = ReturnedNone]]
            /\ UNCHANGED <<POOL, is_closed, num_on_requests, nclients>>
         \/ /\ p.ok /\ p.list # <<>>
            /\ \E host \in HostInputs, host_pattern \in PatternInputs,
                  inapp_is_settings \in BOOLEAN :
                 LET h == ResolveHost(host, host_pattern, inapp_is_settings)
                     cred == p.list[1]
                     key == <<h.host, cred>>
                     found == key \in PoolKeys
                     c == IF found THEN POOL[GetFromPool(key)].client ELSE nclients + 1
                 IN
                 \/ /\ ~h.ok          \* _GetRiotClientByUserRegion raised
                    /\ rq' = [rq EXCEPT ![r] = [base EXCEPT !.pc = "done",
                          !.out = Raised("HTTPException", HTTP_500_INTERNAL_SERVER_ERROR)]]
                    /\ UNCHANGED <<POOL, is_closed, num_on_requests, nclients>>
                 \/ /\ h.ok
                    /\ POOL' = IF found THEN POOL
                               ELSE Append(POOL, [key |-> key, client |-> c])
                    /\ nclients' = IF found THEN nclients ELSE nclients + 1
                    /\ num_on_requests' = [num_on_requests EXCEPT ![c] = @ + 1]
                    /\ UNCHANGED is_closed
                    /\ \E method \in Methods :
                         IF method # "GET"      \* _query.py:134, after the increment
                         THEN rq' = [rq EXCEPT ![r] = [base EXCEPT !.pc = "done",
                                  !.client = c,
                                  !.out = Raised("HTTPException",
                                                 HTTP_500_INTERNAL_SERVER_ERROR)]]
                         ELSE IF is_closed[c]   \* httpx refuses to send on a closed client
                         THEN rq' = [rq EXCEPT ![r] = [base EXCEPT !.pc = "done",
                                  !.client = c, !.out = Raised("RuntimeError", 0)]]
                         ELSE rq' = [rq EXCEPT ![r] = [base EXCEPT !.pc = "awaiting",
                                  !.client = c, !.attempts = Append(@, cred)]]
    /\ UNCHANGED <<riotClientPool, sweep, life, upstream, fn, lp, tc>>

(* client.get completes: response hook, _query.py:135-153 and 167-169 *)
QueryRespond(r) ==
    /\ rq[r].pc = "awaiting"
    /\ LET c == rq[r].client
           cred == rq[r].attempts[Len(rq[r].attempts)]
           answer == upstream[cred]
       IN
       IF IsSuccess(answer)
       THEN /\ num_on_requests' = [num_on_requests EXCEPT ![c] = @ - 1]
            /\ rq' = [rq EXCEPT ![r].pc = "done", ![r].out = Returned(cred)]
       ELSE /\ UNCHANGED num_on_requests
            /\ rq' = [rq EXCEPT ![r].pc = "done",
                         ![r].out = IF answer = TransportFailure
                                    THEN Raised("ConnectError", 0)
                                    ELSE Raised("HTTPStatusError", answer)]
    /\ UNCHANGED <<POOL, is_closed, nclients, riotClientPool, sweep, life, upstream, fn, lp, tc>>


----------------------------------------------------------------------------
(* CleanUpPool, HttpxAsyncClient.py:80-103, over BaseClient.Iterate           *)
(* (BaseClient.py:24-26). The only await of the pass is client.aclose(), so   *)
(* the pass runs without interruption from one client it closes to the next.  *)
IdleSweep ==
    [pc |-> "idle", pos |-> 0, used |-> 0, cleanup_list |-> <<>>, skipped |-> {},
     passes |-> 0, failed |-> FALSE]

\* a sweep that closes whatever it finds open
NoRequestWaiting_Forced(c) == num_on_requests[c] >= 0

\* HttpxAsyncClient.py:90: the client has no request waiting to be processed
NoRequestWaiting(c) == num_on_requests[c] = 0

\* from position p of the dict: where the pass stops next, with its cleanup_list
\* and the clients it skipped (lines 84-98)
RECURSIVE Scan(_, _, _)
Scan(p, cleanup_list, skipped) ==
    IF p > Len(POOL)
    THEN [stop |-> "end", pos |-> p, cleanup_list |-> cleanup_list, skipped |-> skipped]
    ELSE LET c == POOL[p].client IN
         IF is_closed[c]
         THEN Scan(p + 1, Append(cleanup_list, POOL[p].key), skipped)
         ELSE IF NoRequestWaiting(c)
         THEN [stop |-> "aclose", pos |-> p,
               cleanup_list |-> Append(cleanup_list, POOL[p].key), skipped |-> skipped]
         ELSE Scan(p + 1, cleanup_list, skipped \cup {c})

\* the pass continues from position p until it awaits aclose() or returns
RunSweep(p, cleanup_list, skipped, used, passes) ==
    LET s == Scan(p, cleanup_list, skipped) IN
    IF s.stop = "end"
    THEN /\ POOL' = RemoveFromPool(POOL, s.cleanup_list)
         /\ sweep' = [IdleSweep EXCEPT !.passes = passes, !.skipped = s.skipped]
         /\ UNCHANGED is_closed
    ELSE /\ is_closed' = [is_closed EXCEPT ![POOL[s.pos].client] = TRUE]
         /\ sweep' = [pc |-> "aclose", pos |-> s.pos, used |-> used,
                      cleanup_list |-> s.cleanup_list, skipped |-> s.skipped,
                      passes |-> passes, failed |-> FALSE]
         /\ UNCHANGED POOL

SweepStart ==
    /\ sweep.pc = "idle"
    /\ sweep.passes < MaxSweeps
    /\ RunSweep(1, <<>>, {}, Len(POOL), sweep.passes + 1)
    /\ UNCHANGED <<num_on_requests, nclients, riotClientPool, rq, life, upstream, fn, lp, tc>>

\* aclose() returned; the dict iterator raises RuntimeError when the dict changed size
SweepResume ==
    /\ sweep.pc = "aclose"
    /\ IF Len(POOL) # sweep.used
       THEN /\ sweep' = [IdleSweep EXCEPT !.passes = sweep.passes, !.failed = TRUE,
                                          !.skipped = sweep.skipped]
            /\ UNCHANGED <<POOL, is_closed>>
       ELSE RunSweep(sweep.pos + 1, sweep.cleanup_list, sweep.skipped, sweep.used,
                     sweep.passes)
    /\ UNCHANGED <<num_on_requests, nclients, riotClientPool, rq, life, upstream, fn, lp, tc>>

----------------------------------------------------------------------------
(* riotapi_lifespan, riotapi.py:110-151, and CleanupRiotClient,               *)
(* httpx_riotclient.py:145-151                                                *)
InfiniteLoop == 0 - 1

\* a teardown that walks the pool of BaseClient instead
CleanupTargets_BasePool == PoolClients

\* the clients CleanupRiotClient closes: every client of _RIOT_CLIENTPOOL
CleanupTargets == riotClientPool

CleanupRiotClient ==
    /\ is_closed' = [c \in Clients |-> is_closed[c] \/ c \in CleanupTargets]
    /\ riotClientPool' = {}

\* the condition of the while of line 122
LoopContinues ==
    \/ life.MAX_REPETITIONS = InfiniteLoop
    \/ life.CURRENT_REPETITIONS < life.MAX_REPETITIONS

\* one iteration of _reload_dependency_resources up to its sleep (lines 122-132)
ReloadTick ==
    /\ life.reload = "loop"
    /\ IF LoopContinues
       THEN /\ CleanupRiotClient
            /\ LET cur == IF life.MAX_REPETITIONS # InfiniteLoop
                          THEN life.CURRENT_REPETITIONS + 1
                          ELSE life.CURRENT_REPETITIONS
               IN life' = [life EXCEPT !.CURRENT_REPETITIONS = cur,
                                       !.reload = IF cur # life.MAX_REPETITIONS
                                                  THEN "sleep" ELSE "loop"]
       ELSE /\ life' = [life EXCEPT !.reload = "ended"]
            /\ UNCHANGED <<is_closed, riotClientPool>>
    /\ UNCHANGED <<POOL, num_on_requests, nclients, rq, sweep, upstream, fn, lp, tc>>

\* an iteration whose reload_authentication_for_router raises (line 123: the file
\* cannot be opened or parsed, or lacks a table): nothing in the task catches it, and
\* the task ends there
ReloadFails ==
    /\ life.reload = "loop"
    /\ LoopContinues
    /\ life' = [life EXCEPT !.reload = "failed"]
    /\ UNCHANGED <<POOL, is_closed, num_on_requests, nclients, riotClientPool, rq, sweep,
                   upstream, fn, lp, tc>>

\* asyncio.sleep(next_trigger) is over
ReloadWake ==
    /\ life.reload = "sleep"
    /\ life' = [life EXCEPT !.reload = "loop"]
    /\ UNCHANGED <<POOL, is_closed, num_on_requests, nclients, riotClientPool, rq, sweep,
                   upstream, fn, lp, tc>>

\* after the yield: lines 143-144
Shutdown ==
    /\ life.app = "up"
    /\ CleanupRiotClient
    /\ life' = [life EXCEPT !.app = "down", !.MAX_REPETITIONS = life.CURRENT_REPETITIONS]
    /\ UNCHANGED <<POOL, num_on_requests, nclients, rq, sweep, upstream, fn, lp, tc>>

----------------------------------------------------------------------------
LoopOut(kind, status, i) == [kind |-> kind, status |-> status, cred |-> i]
LoopOff ==
    [pc |-> "off", raises |-> FALSE, responses |-> <<>>, idx |-> 0, errors |-> <<>>,
     attempts |-> <<>>,
     out |-> LoopOut("pending", 0, 0)]
CacheOff == [pc |-> "off"]       \* the cached route functions are not part of this run

Init ==
    /\ POOL = <<>>
    /\ is_closed = [c \in Clients |-> FALSE]
    /\ num_on_requests = [c \in Clients |-> 0]
    /\ nclients = 0
    /\ riotClientPool = {}
    /\ rq = [r \in Requests |-> IdleRequest]
    /\ sweep = IdleSweep
    /\ life = [app |-> "up", reload |-> "loop", MAX_REPETITIONS |-> InfiniteLoop,
               CURRENT_REPETITIONS |-> 0]
    /\ upstream \in [UsedCredentials -> Answers]
    /\ fn = FnOff
    /\ lp = LoopOff
    /\ tc = CacheOff

Next ==
    \/ \E r \in Requests : QueryStart(r)
    \/ \E r \in Requests : QueryRespond(r)
    \/ SweepStart
    \/ SweepResume
    \/ ReloadTick
    \/ ReloadWake
    \/ Shutdown

Spec == Init /\ [][Next]_vars


----------------------------------------------------------------------------
(* Properties of the client pool and of the forwarding engine *)

Constructed(c) == c <= nclients
InFlight(c) == \E r \in Requests : rq[r].pc = "awaiting" /\ rq[r].client = c
InFlightCount(c) == Cardinality({r \in Requests : rq[r].pc = "awaiting" /\ rq[r].client = c})
Done(r) == rq[r].pc = "done"
Attempted(r) == rq[r].attempts # <<>>

\* C1: a pooled client that is open and has num_on_requests > 0 is neither closed nor
\* removed from the pool by any step, whatever number of CleanUpPool passes run.
C1_SweepSparesBusyClient ==
    [][\A c \in Clients :
          (Constructed(c) /\ InPool(c) /\ ~is_closed[c] /\ num_on_requests[c] > 0)
          => (~is_closed'[c] /\ c \in PoolClients')]_vars

\* a second pass has returned and a client it skipped is still open, pooled and busy
C1_Witness ==
    /\ sweep.pc = "idle" /\ sweep.passes >= 2 /\ ~sweep.failed
    /\ \E c \in sweep.skipped : InPool(c) /\ ~is_closed[c] /\ num_on_requests[c] > 0

\* C2: no step of the process (requests, CleanUpPool, the reload tick, the shutdown
\* step) closes a client on which a request is in flight.
C2_NoCloseWhileInFlight ==
    [][\A c \in Clients : (~is_closed[c] /\ is_closed'[c]) => ~InFlight(c)]_vars

\* the reload tick has run its teardown and sleeps, and the shutdown step has run its
\* teardown while a request was in flight on a pooled client, which is still open
C2_Witness ==
    /\ life.reload = "sleep" /\ life.app = "down"
    /\ \E c \in Clients : InFlight(c) /\ InPool(c) /\ ~is_closed[c]

\* C3: every finished call through _QueryToRiotAPI has put the counter back, so the
\* counter of a client is the number of calls still in flight on it.
C3_CounterRestored ==
    \A c \in Clients : num_on_requests[c] = InFlightCount(c)

\* C4: with two eligible credentials, the first answering 429 and the second 200, the
\* call returns the second credential's body after attempting the first, then the second.
C4_RotatesOn429 ==
    \A r \in Requests :
       (/\ Done(r) /\ Attempted(r) /\ Len(rq[r].creds) = 2
        /\ upstream[rq[r].creds[1]] = HTTP_429_TOO_MANY_REQUESTS
        /\ upstream[rq[r].creds[2]] = 200)
       => (rq[r].out = Returned(rq[r].creds[2]) /\ rq[r].attempts = rq[r].creds)

\* C7: with an empty eligible list the call fails with an internal configuration error
\* and issues no upstream call.
C7_EmptyListIsConfigError ==
    \A r \in Requests :
       (Done(r) /\ rq[r].patched /\ rq[r].creds = <<>>)
       => (/\ rq[r].out = Raised("HTTPException", HTTP_500_INTERNAL_SERVER_ERROR)
           /\ rq[r].attempts = <<>>)

\* C8: a transport failure on one credential is contained: every later credential is
\* still attempted and a later 2xx is returned.
C8_TransportFailureContained ==
    \A r \in Requests :
       (/\ Done(r) /\ Attempted(r) /\ Len(rq[r].creds) = 2
        /\ upstream[rq[r].creds[1]] = TransportFailure)
       => (/\ rq[r].attempts = rq[r].creds
           /\ upstream[rq[r].creds[2]] = 200 => rq[r].out = Returned(rq[r].creds[2]))


----------------------------------------------------------------------------
(* The credential loop of QueryToRiotAPI, _query.py:162-196, run on a given   *)
(* sequence of responses: responses[i] is the status of the response that the *)
(* upstream gives for the i-th credential. With lp.raises the response goes    *)
(* through _QueryToRiotAPI as written, whose raise_for_status (line 138) lets  *)
(* only a 2xx response come back (see IsSuccess); without it the call is       *)
(* replaced by a double that hands every response back, which is how the       *)
(* other branches of the loop are reached.                                     *)
MaxCreds == 3
Statuses == {100, 200, 301, 404, HTTP_405_METHOD_NOT_ALLOWED, HTTP_429_TOO_MANY_REQUESTS,
             500, 503}
ResponseLists == UNION {[1..n -> Statuses] : n \in 0..MaxCreds}

\* the keys of a recorded error, _query.py:173-174
ErrorKeys == {"credential", "status_code", "headers", "message"}
ErrorOf(i, status) == [credential |-> i, status_code |-> status]

\* the key the exhaustion block reads to build the logged detail, _query.py:188
DetailKey == "text"

\* sort key of _query.py:186: (divmod(status_code, 100)[1], status_code)
SortKeyLessEq(a, b) ==
    \/ a.status_code % 100 < b.status_code % 100
    \/ a.status_code % 100 = b.status_code % 100 /\ a.status_code <= b.status_code

RECURSIVE InsertError(_, _)
InsertError(sorted, x) ==
    IF sorted = <<>> THEN <<x>>
    ELSE IF SortKeyLessEq(Head(sorted), x)
         THEN <<Head(sorted)>> \o InsertError(Tail(sorted), x)
         ELSE <<x>> \o sorted

\* errors.sort(key=...): stable
RECURSIVE SortErrors(_)
SortErrors(errors) ==
    IF errors = <<>> THEN <<>>
    ELSE InsertError(SortErrors(SubSeq(errors, 1, Len(errors) - 1)), errors[Len(errors)])

\* line 193: HTTPException(status_code=err['status_code'], detail=f"...{err}")
RaisedFrom(err) == LoopOut("HTTPException", err.status_code, err.credential)

\* lines 184-196: what the caller gets once the loop is over
Exhausted(errors) ==
    IF errors = <<>> THEN LoopOut("None", 0, 0)
    ELSE IF DetailKey \notin ErrorKeys      \* err['text'] of the first logged error
    THEN LoopOut("KeyError", 0, 0)
    ELSE RaisedFrom(SortErrors(errors)[1])

\* lines 172-174: the statuses recorded as candidate errors
Recorded(status) == status \div 100 # 3

LoopInit ==
    /\ POOL = <<>>
    /\ is_closed = [c \in Clients |-> FALSE]
    /\ num_on_requests = [c \in Clients |-> 0]
    /\ nclients = 0
    /\ riotClientPool = {}
    /\ rq = [r \in Requests |-> IdleRequest]
    /\ sweep = IdleSweep
    /\ life = [app |-> "up", reload |-> "loop", MAX_REPETITIONS |-> InfiniteLoop,
               CURRENT_REPETITIONS |-> 0]
    /\ upstream = [c \in UsedCredentials |-> 200]
    /\ fn = FnOff
    /\ \E responses \in ResponseLists, raises \in BOOLEAN :
          lp = [LoopOff EXCEPT !.pc = "call", !.raises = raises, !.responses = responses]
    /\ tc = CacheOff

NotLoop == <<POOL, is_closed, num_on_requests, nclients, riotClientPool, rq, sweep, life,
             upstream, fn, tc>>

\* a loop that takes no response for a success
ReturnsBody_Never(status_code) == FALSE

\* line 168: the response ends the call with its body
ReturnsBody(status_code) == status_code \div 100 = 2

\* a loop that stays on the credential that failed
NextPosition_Retry(idx) == IF idx = 0 THEN 1 ELSE idx

\* line 163, for cred in credentials: the position after idx
NextPosition(idx) == idx + 1

\* lines 161-166: up to the first await, or to the end when the list is empty
LoopEnter ==
    /\ lp.pc = "call"
    /\ IF lp.responses = <<>>
       THEN lp' = [lp EXCEPT !.pc = "done", !.out = Exhausted(<<>>)]
       ELSE lp' = [lp EXCEPT !.pc = "awaiting", !.idx = NextPosition(0),
                             !.attempts = Append(@, NextPosition(0))]
    /\ UNCHANGED NotLoop

\* lines 167-196: the response of credential idx came back
LoopResponse ==
    /\ lp.pc = "awaiting"
    /\ LET status_code == lp.responses[lp.idx]
           errors == IF status_code \div 100 # 1 /\ Recorded(status_code)
                     THEN Append(lp.errors, ErrorOf(lp.idx, status_code))
                     ELSE lp.errors
       IN
       IF lp.raises /\ ~IsSuccess(status_code)      \* line 138, inside the await of line 165
       THEN lp' = [lp EXCEPT !.pc = "done",
                             !.out = LoopOut("HTTPStatusError", status_code, lp.idx)]
       ELSE IF ReturnsBody(status_code)
       THEN lp' = [lp EXCEPT !.pc = "done", !.out = LoopOut("json", status_code, lp.idx)]
       ELSE IF lp.idx < Len(lp.responses)
       THEN lp' = [lp EXCEPT !.idx = NextPosition(@), !.errors = errors,
                             !.attempts = Append(@, NextPosition(lp.idx))]
       ELSE lp' = [lp EXCEPT !.pc = "done", !.errors = errors, !.out = Exhausted(errors)]
    /\ UNCHANGED NotLoop

LoopNext == LoopEnter \/ LoopResponse

SpecLoop == LoopInit /\ [][LoopNext]_vars

\* the recorded error with the least (status mod 100, status)
MostRelevant(errors) == SortErrors(errors)[1]
LoopFailed == lp.pc = "done" /\ lp.out.kind # "json" /\ lp.errors # <<>>

----------------------------------------------------------------------------
(* A ttl-cached route function, AccountV1.py:26-31: cachetools' ttl_cache      *)
(* around an async def. The wrapper is synchronous: on a miss it calls the     *)
(* function, which only builds a coroutine object, stores that object under    *)
(* the key of the arguments and returns it; on a hit it returns the stored     *)
(* object. The route handler (AccountV1.py:74) awaits whatever it is handed.   *)
(* One unit of the clock is 100 seconds.                                       *)
MaxCallers == 3      \* handler invocations
MaxTime == 4         \* the clock stops here
TTL2 == 3            \* BASE_TTL_DURATION = 5 * MINUTE; duration_scale is off by default
Callers == 1..MaxCallers
CacheKeys == {"a", "b"}      \* two tuples of arguments
NoCoro == 0

IdleCaller ==
    [pc |-> "idle", key |-> None, at |-> 0, miss |-> FALSE, coro |-> NoCoro, out |-> "pending"]
NoCoroutine == [state |-> "none", key |-> None, result |-> "pending"]
EmptyEntry == [coro |-> NoCoro, expires |-> 0]

CacheInit ==
    /\ POOL = <<>>
    /\ is_closed = [c \in Clients |-> FALSE]
    /\ num_on_requests = [c \in Clients |-> 0]
    /\ nclients = 0
    /\ riotClientPool = {}
    /\ rq = [r \in Requests |-> IdleRequest]
    /\ sweep = IdleSweep
    /\ life = [app |-> "up", reload |-> "loop", MAX_REPETITIONS |-> InfiniteLoop,
               CURRENT_REPETITIONS |-> 0]
    /\ upstream = [c \in UsedCredentials |-> 200]
    /\ fn = FnOff
    /\ lp = LoopOff
    /\ tc = [pc |-> "on", now |-> 0,
             cache |-> [k \in CacheKeys |-> EmptyEntry],
             coros |-> [i \in Callers |-> NoCoroutine],
             callers |-> [i \in Callers |-> IdleCaller],
             calls |-> [k \in CacheKeys |-> 0]]

NotCache == <<POOL, is_closed, num_on_requests, nclients, riotClientPool, rq, sweep, life,
              upstream, fn, lp>>

\* TTLCache.__getitem__: an entry is served while timer() < expires
CacheHit(k) == tc.cache[k].coro # NoCoro /\ tc.now < tc.cache[k].expires

\* the handler calls the cached function and awaits what it returns, up to the first
\* suspension. Awaiting a coroutine object that another task is awaiting, or one that
\* has finished, raises RuntimeError in the awaiting task.
CachedCall(i, k) ==
    /\ tc.callers[i].pc = "idle"
    /\ IF i = 1 THEN TRUE ELSE tc.callers[i - 1].pc # "idle"   \* numbered in order of call
    /\ IF CacheHit(k)
       THEN LET co == tc.cache[k].coro IN
            tc' = [tc EXCEPT !.callers[i] =
                      [pc |-> "done", key |-> k, at |-> tc.now, miss |-> FALSE, coro |-> co,
                       out |-> "RuntimeError"]]
       ELSE tc' = [tc EXCEPT
                      !.cache[k] = [coro |-> i, expires |-> tc.now + TTL2],
                      !.coros[i] = [state |-> "suspended", key |-> k, result |-> "pending"],
                      !.calls[k] = @ + 1,
                      !.callers[i] =
                         [pc |-> "awaiting", key |-> k, at |-> tc.now, miss |-> TRUE,
                          coro |-> i, out |-> "pending"]]
    /\ UNCHANGED NotCache

\* the upstream call of a running coroutine is over: QueryToRiotAPI returns the body or
\* raises, and the task that started the coroutine gets that
UpstreamResults == {"json", "HTTPStatusError"}
CoroutineCompletes(i) ==
    /\ tc.coros[i].state = "suspended"
    /\ \E result \in UpstreamResults :
          tc' = [tc EXCEPT !.coros[i].state = "finished", !.coros[i].result = result,
                           !.callers[i].pc = "done", !.callers[i].out = result]
    /\ UNCHANGED NotCache

\* perf_counter advances
ClockTick ==
    /\ tc.now < MaxTime
    /\ tc' = [tc EXCEPT !.now = @ + 1]
    /\ UNCHANGED NotCache

CacheNext ==
    \/ \E i \in Callers, k \in CacheKeys : CachedCall(i, k)
    \/ \E i \in Callers : CoroutineCompletes(i)
    \/ ClockTick

SpecCache == CacheInit /\ [][CacheNext]_vars

Called(i) == tc.callers[i].pc # "idle"
UpstreamInFlight(k) ==
    Cardinality({i \in Callers : tc.coros[i].state = "suspended" /\ tc.coros[i].key = k})
GotUpstreamResult(i) ==
    /\ tc.callers[i].pc = "done"
    /\ tc.coros[tc.callers[i].coro].state = "finished"
    /\ tc.callers[i].out = tc.coros[tc.callers[i].coro].result

\* C9: of two calls with the same arguments, the later one within the TTL of the
\* earlier one's entry shares its single upstream call and both obtain its result; a
\* later call after the TTL has expired is a miss with an upstream call of its own.
C9_HitWithinTTLMissAfter ==
    \A a, b \in Callers :
       (/\ a < b /\ Called(a) /\ Called(b)
        /\ tc.callers[a].miss /\ tc.callers[a].key = tc.callers[b].key
        /\ \A c \in Callers :       \* b is the next call with these arguments
              (a < c /\ c < b) => tc.callers[c].key # tc.callers[a].key)
       => IF tc.callers[b].at < tc.callers[a].at + TTL2
          THEN /\ tc.callers[b].coro = tc.callers[a].coro
               /\ tc.callers[b].pc = "done" => GotUpstreamResult(b)
          ELSE tc.callers[b].miss /\ tc.callers[b].coro # tc.callers[a].coro

\* C10: whatever the interleaving of requests with the same key, at most one upstream
\* call for the key is in flight, and every request completes with the upstream result.
C10_OneCallAllServed ==
    /\ \A k \in CacheKeys : UpstreamInFlight(k) <= 1
    /\ \A i \in Callers : tc.callers[i].pc = "done" => tc.callers[i].out \in UpstreamResults


----------------------------------------------------------------------------
(* Acquiring a client: WrapGetRiotClient (BaseClient.py:42-56) around         *)
(* GetRiotClient (HttpxAsyncClient.py:138-156), as QueryStart runs it         *)

\* the call of request r obtained its client in this step
AcquiredNow(r) == rq[r].client = NoClient /\ rq'[r].client # NoClient

\* the pool holds one entry per key and one per client
OneClientPerKey ==
    \A i, j \in 1..Len(POOL) :
       (POOL[i].key = POOL[j].key \/ POOL[i].client = POOL[j].client) => i = j

\* an acquire returns the client the pool holds under the key when there is one, and
\* constructs a client, pooled under the key, only when there is none
AcquireStep ==
    \A r \in Requests :
       AcquiredNow(r) =>
          LET c == rq'[r].client
              key == POOL'[CHOOSE i \in 1..Len(POOL') : POOL'[i].client = c].key
              held == {POOL[i].client : i \in {j \in 1..Len(POOL) : POOL[j].key = key}}
          IN /\ c \in PoolClients'
             /\ IF held # {}
                THEN held = {c} /\ nclients' = nclients /\ POOL' = POOL
                ELSE c = nclients + 1 /\ nclients' = nclients + 1
                     /\ POOL' = Append(POOL, [key |-> key, client |-> c])

\* C11: acquires of one key with no sweep in between return the same client instance;
\* the pool holds at most one client per key; a client is constructed only when the key
\* is absent.
C11_AcquireReusesPooledClient ==
    /\ []OneClientPerKey
    /\ [][AcquireStep]_vars
    /\ [](sweep.passes = 0 =>
            \A a, b \in Requests :
               (/\ rq[a].client # NoClient /\ rq[b].client # NoClient
                /\ rq[a].creds[1] = rq[b].creds[1])
               => rq[a].client = rq[b].client)

\* two calls were handed the same instance
C11_Witness ==
    /\ sweep.passes = 0
    /\ \E a, b \in Requests :
          a # b /\ rq[a].client # NoClient /\ rq[a].client = rq[b].client


----------------------------------------------------------------------------
(* The credential selector on its own: QueryToRiotAPI's call of               *)
(* _PatchCredential (_query.py:161) for a requested list, the first segment   *)
(* of an endpoint, an override flag and a priority table. When the selector   *)
(* raises, the exception leaves QueryToRiotAPI before its loop (line 163).    *)
MaxLen == 3        \* length of the requested list
MaxRank == 3       \* priority ranks in use
Unrecognised == "XYZ"      \* a value that is no member of CREDENTIALS
SelectAlphabet == {"LOL", "LOR", "FULL", Unrecognised}
SelectLists == UNION {[1..n -> SelectAlphabet] : n \in 0..MaxLen}
SelectEntryNames == {"lol", "riot", ""}      \* "" is what a path with a leading / gives

\* the priority tables: every ranking of the members that can reach the sort here
PriorityTables ==
    {p \in [CREDENTIALS -> 1..MaxRank] : p["TFT"] = 1 /\ p["VAL"] = 1}

SelectInit ==
    /\ POOL = <<>>
    /\ is_closed = [c \in Clients |-> FALSE]
    /\ num_on_requests = [c \in Clients |-> 0]
    /\ nclients = 0
    /\ riotClientPool = {}
    /\ rq = [r \in Requests |-> IdleRequest]
    /\ sweep = IdleSweep
    /\ life = [app |-> "up", reload |-> "loop", MAX_REPETITIONS |-> InfiniteLoop,
               CURRENT_REPETITIONS |-> 0]
    /\ upstream = [c \in UsedCredentials |-> 200]
    /\ lp = LoopOff
    /\ tc = CacheOff
    /\ \E priority \in PriorityTables, credentials \in SelectLists,
          entry_name \in SelectEntryNames, override \in BOOLEAN :
          fn = [pc |-> "call", priority |-> priority, credentials |-> credentials,
                entry_name |-> entry_name, override |-> override,
                result |-> PatchRaised("pending", 0)]

NotFn == <<POOL, is_closed, num_on_requests, nclients, riotClientPool, rq, sweep, life,
           upstream, lp, tc>>

\* line 161: the selector returns and the loop is entered, or it raises
SelectCall ==
    /\ fn.pc = "call"
    /\ LET p == _PatchCredential(fn.credentials, fn.entry_name, fn.override)
       IN fn' = [fn EXCEPT !.pc = IF p.ok THEN "loop" ELSE "raised", !.result = p]
    /\ UNCHANGED NotFn

SelectNext == SelectCall

SpecSelect == SelectInit /\ [][SelectNext]_vars

Ranks(list) == [i \in 1..Len(list) |-> fn.priority[list[i]]]
OfRank(list, k) == SelectSeq(list, LAMBDA c : fn.priority[c] = k)

\* C12: the list the selector returns is in ascending order of priority rank, and the
\* credentials of one rank are in the order they had in the list that was sorted.
C12_SortedByPriorityStable ==
    fn.pc = "loop" =>
       LET list == fn.result.list
           before == Eligible(fn.credentials, fn.entry_name, fn.override)
       IN /\ \A i, j \in 1..Len(list) : i < j => fn.priority[list[i]] <= fn.priority[list[j]]
          /\ \A k \in 1..MaxRank : OfRank(list, k) = OfRank(before, k)

\* credentials of ranks 3, 1, 2 came back in the order 1, 2, 3
C12_Witness ==
    /\ fn.pc = "loop"
    /\ Ranks(Eligible(fn.credentials, fn.entry_name, fn.override)) = <<3, 1, 2>>
    /\ Ranks(fn.result.list) = <<1, 2, 3>>


----------------------------------------------------------------------------
(* Resolving the host of a request: GetRiotClientByUserRegion of _region.py   *)
(* (lines 33-54) and _GetRiotClientByUserRegion of _query.py (lines 86-114),  *)
(* each up to its call of HttpxAsyncClient.GetRiotClient.                     *)
HTTP_400_BAD_REQUEST == 400

\* _RegionRoute, _region.py:17-24
Americas == {"BR1", "LA1", "LA2", "NA1"}
Europe == {"EUN1", "EUW1", "RU", "TR1"}
AsiaPacific == {"JP1", "KR", "OC1", "PH2", "SG2", "TH2", "TW2", "VN2"}
RoutedFamilies == {"AccountV1", "MatchV5"}
_RegionRoute(src_route) ==
    [region \in Americas \cup Europe \cup AsiaPacific |->
        IF region \in Americas THEN "AMERICAS"
        ELSE IF region \in Europe THEN "EUROPE"
        ELSE IF src_route = "AccountV1" \/ region \in {"JP1", "KR"} THEN "ASIA"
        ELSE "SEA"]
RegisteredRegions(src_route) ==
    IF src_route \in RoutedFamilies THEN DOMAIN _RegionRoute(src_route) ELSE {}
\* every host name a routing table knows, as a key or as a value
RegisteredHosts ==
    Americas \cup Europe \cup AsiaPacific \cup {"AMERICAS", "EUROPE", "ASIA", "SEA"}

Resolved(host) == [ok |-> TRUE, err |-> "none", status |-> 0, host |-> host]
ResolveRaised(err, status) == [ok |-> FALSE, err |-> err, status |-> status, host |-> None]

\* _region.py:48-49: the ValueError of lines 41 and 46 becomes HTTP 400
InvalidRegion == ResolveRaised("HTTPException", HTTP_400_BAD_REQUEST)

\* _region.py:33-54; cfg_region is USERCFG.REGION
GetRiotClientByUserRegion(region, src_route, has_cfg, bypass, cfg_region) ==
    IF ~has_cfg THEN ResolveRaised("HTTPException", HTTP_500_INTERNAL_SERVER_ERROR)
    ELSE IF bypass THEN Resolved(region)
    ELSE IF src_route \notin RoutedFamilies THEN InvalidRegion
    ELSE LET usr_region == IF region # None THEN region ELSE cfg_region IN
         IF usr_region \notin DOMAIN _RegionRoute(src_route) THEN InvalidRegion
         ELSE Resolved(_RegionRoute(src_route)[usr_region])

\* _query.py:86-114 on the model's ResolveHost
_GetRiotClientByUserRegion(host, host_pattern, inapp_is_settings) ==
    LET h == ResolveHost(host, host_pattern, inapp_is_settings) IN
    IF h.ok THEN Resolved(h.host)
    ELSE ResolveRaised("HTTPException", HTTP_500_INTERNAL_SERVER_ERROR)

RegionInputs == {None, "VN2", "OC1", "XX"}
SrcRoutes == {"AccountV1", "MatchV5", "ChampionMasteryV4"}
CfgRegions == {"VN2", "XX"}
HostCodes == {None, "ASIA", "XX"}
HostPatterns == {None, "REGION", "NORMAL_CONTINENT", "MATCH_CONTINENT", "OTHER"}

RegionInit ==
    /\ POOL = <<>>
    /\ is_closed = [c \in Clients |-> FALSE]
    /\ num_on_requests = [c \in Clients |-> 0]
    /\ nclients = 0
    /\ riotClientPool = {}
    /\ rq = [r \in Requests |-> IdleRequest]
    /\ sweep = IdleSweep
    /\ life = [app |-> "up", reload |-> "loop", MAX_REPETITIONS |-> InfiniteLoop,
               CURRENT_REPETITIONS |-> 0]
    /\ upstream = [c \in UsedCredentials |-> 200]
    /\ lp = LoopOff
    /\ tc = CacheOff
    /\ \/ \E region \in RegionInputs, src_route \in SrcRoutes, has_cfg \in BOOLEAN,
             bypass \in BOOLEAN, cfg_region \in CfgRegions :
             fn = [pc |-> "call", priority |-> DefaultPriority, resolver |-> "_region",
                   region |-> region, src_route |-> src_route, configured |-> has_cfg,
                   bypass |-> bypass, cfg_region |-> cfg_region, host_pattern |-> None,
                   result |-> ResolveRaised("pending", 0)]
       \/ \E host \in HostCodes, host_pattern \in HostPatterns, inapp \in BOOLEAN :
             fn = [pc |-> "call", priority |-> DefaultPriority, resolver |-> "_query",
                   region |-> host, src_route |-> None, configured |-> inapp,
                   bypass |-> FALSE, cfg_region |-> None, host_pattern |-> host_pattern,
                   result |-> ResolveRaised("pending", 0)]

\* HttpxAsyncClient.GetRiotClient(region=host, ...) is called with the resolved host:
\* a client is handed out (pooled or new), or building its URL from None fails
AfterResolve(res) ==
    IF ~res.ok THEN [fn EXCEPT !.pc = "raised", !.result = res]
    ELSE IF res.host = None
    THEN [fn EXCEPT !.pc = "raised", !.result = ResolveRaised("AttributeError", 0)]
    ELSE [fn EXCEPT !.pc = "acquired", !.result = res]

RegionResolve ==
    /\ fn.pc = "call" /\ fn.resolver = "_region"
    /\ fn' = AfterResolve(GetRiotClientByUserRegion(fn.region, fn.src_route, fn.configured,
                                                   fn.bypass, fn.cfg_region))
    /\ UNCHANGED NotFn

QueryResolve ==
    /\ fn.pc = "call" /\ fn.resolver = "_query"
    /\ fn' = AfterResolve(_GetRiotClientByUserRegion(fn.region, fn.host_pattern,
                                                    fn.configured))
    /\ UNCHANGED NotFn

RegionNext == RegionResolve \/ QueryResolve

SpecRegion == RegionInit /\ [][RegionNext]_vars

\* the region code the resolver works on
UsrRegion == IF fn.region # None THEN fn.region ELSE fn.cfg_region

\* the request names a code that the routing tables do not hold, to a resolver that is
\* configured and is asked to resolve
UnregisteredRegion ==
    /\ fn.configured
    /\ IF fn.resolver = "_region"
       THEN ~fn.bypass /\ fn.src_route \in RoutedFamilies
            /\ UsrRegion \notin RegisteredRegions(fn.src_route)
       ELSE fn.region # None /\ fn.region \notin RegisteredHosts

\* C13: resolving an unregistered region code fails with HTTP 400, not 500, and no
\* client is acquired (so no upstream call can follow).
C13_UnregisteredRegionIs400 ==
    (fn.pc # "call" /\ UnregisteredRegion)
    => (fn.pc = "raised" /\ fn.result.status = HTTP_400_BAD_REQUEST)


----------------------------------------------------------------------------
(* WeightedCredentialLoadBalancing.LoadBalance, CredentialLoadBalancing.py    *)
(* lines 41-64, on credentials registered with AddCredItem. A load is the     *)
(* pair (max_requests, time_in_second); the rates are fractions and the       *)
(* arithmetic below is exact. On every input drawn here Python's float        *)
(* expression round(load / total_load * 100) gives the same integers.         *)
MaxItems == 3       \* credentials registered
MaxLoads == 2       \* loads registered for one credential
DefaultScaler == 10
LoadInputs == {<<1, 1>>, <<2, 1>>, <<3, 1>>, <<250, 1>>, <<1, 2>>, <<3, 2>>}
ItemInputs == UNION {[1..n -> LoadInputs] : n \in 1..MaxLoads}
CredentialSets == UNION {[1..n -> ItemInputs] : n \in 0..MaxItems}

\* x[0] / x[1] <= y[0] / y[1]
RateLessEq(x, y) == x[1] * y[2] <= y[1] * x[2]

\* GetMinLoad, lines 16-18: the first load of the list sorted by rate
GetMinLoad(loads) ==
    loads[CHOOSE i \in 1..Len(loads) :
             /\ \A j \in 1..Len(loads) : RateLessEq(loads[i], loads[j])
             /\ \A j \in 1..(i - 1) : ~RateLessEq(loads[j], loads[i])]

RECURSIVE ProductOfIntervals(_)
ProductOfIntervals(min_loads) ==
    IF min_loads = <<>> THEN 1
    ELSE min_loads[1][2] * ProductOfIntervals(Tail(min_loads))

RECURSIVE SumSeq(_)
SumSeq(q) == IF q = <<>> THEN 0 ELSE q[1] + SumSeq(Tail(q))

\* round(num / den): Python rounds a half to the even integer
RoundHalfEven(num, den) ==
    LET q == num \div den
        r == num % den
    IN IF 2 * r < den THEN q
       ELSE IF 2 * r > den THEN q + 1
       ELSE IF q % 2 = 0 THEN q ELSE q + 1

\* lines 47-55: round(load / total_load * 100) of every credential
Percentages(items) ==
    LET min_loads == [i \in 1..Len(items) |-> GetMinLoad(items[i])]
        d == ProductOfIntervals(min_loads)
        rates == [i \in 1..Len(items) |-> min_loads[i][1] * (d \div min_loads[i][2])]
        total_load == SumSeq(rates)
    IN [i \in 1..Len(items) |-> RoundHalfEven(100 * rates[i], total_load)]

\* lines 56-57: the first index whose percentage fails an assert, 0 when none does
FirstRejected(weights) ==
    LET bad == {i \in 1..Len(weights) : ~(weights[i] > 0 /\ weights[i] <= 100)}
    IN IF bad = {} THEN 0 ELSE CHOOSE i \in bad : \A j \in bad : i <= j

BalanceOut(kind, item) == [kind |-> kind, item |-> item]

BalanceInit ==
    /\ POOL = <<>>
    /\ is_closed = [c \in Clients |-> FALSE]
    /\ num_on_requests = [c \in Clients |-> 0]
    /\ nclients = 0
    /\ riotClientPool = {}
    /\ rq = [r \in Requests |-> IdleRequest]
    /\ sweep = IdleSweep
    /\ life = [app |-> "up", reload |-> "loop", MAX_REPETITIONS |-> InfiniteLoop,
               CURRENT_REPETITIONS |-> 0]
    /\ upstream = [c \in UsedCredentials |-> 200]
    /\ lp = LoopOff
    /\ tc = CacheOff
    /\ \E items \in CredentialSets :
          fn = [pc |-> "call", priority |-> DefaultPriority, items |-> items,
                weights |-> <<>>, out |-> BalanceOut("pending", 0)]

\* LoadBalance: ValueError without credentials (line 43), AssertionError at the first
\* percentage out of range (lines 56-57), else one draw from the weighted list
\* (lines 61-64), in which credential i stands weights[i] * scaler times
LoadBalance ==
    /\ fn.pc = "call"
    /\ IF fn.items = <<>>
       THEN fn' = [fn EXCEPT !.pc = "done", !.out = BalanceOut("ValueError", 0)]
       ELSE LET weights == Percentages(fn.items)
                rejected == FirstRejected(weights)
            IN IF rejected # 0
               THEN fn' = [fn EXCEPT !.pc = "done",
                                     !.weights = SubSeq(weights, 1, rejected),
                                     !.out = BalanceOut("AssertionError", 0)]
               ELSE \E i \in 1..Len(fn.items) :
                       /\ weights[i] * DefaultScaler > 0
                       /\ fn' = [fn EXCEPT !.pc = "done", !.weights = weights,
                                           !.out = BalanceOut("returned", i)]
    /\ UNCHANGED NotFn

BalanceNext == LoadBalance

SpecBalance == BalanceInit /\ [][BalanceNext]_vars

\* C14: with at least one credential registered, LoadBalance returns one of the
\* registered credentials, and the only one when there is one.
C14_ReturnsRegisteredCredential ==
    (fn.pc = "done" /\ fn.items # <<>>)
    => /\ fn.out.kind = "returned"
       /\ fn.out.item \in 1..Len(fn.items)
       /\ Len(fn.items) = 1 => fn.out.item = 1

\* C15: with at least one credential registered (every max_requests and every
\* time_in_second at least 1), each percentage LoadBalance computes is in 1..100 and
\* the percentages sum to at most 100.
C15_PercentagesInRange ==
    (fn.pc = "done" /\ fn.items # <<>>)
    => /\ \A i \in 1..Len(fn.weights) : fn.weights[i] \in 1..100
       /\ SumSeq(fn.weights) <= 100


----------------------------------------------------------------------------
(* CustomAPIRouter.scale, inapp.py lines 53-69, on a router whose four flags  *)
(* are those left by __init__ and load_profile (lines 34-37, 48-51). Every    *)
(* route module calls load_profile once, before its first scale. scale is     *)
(* wrapped in lru_cache: a repeated call with the same arguments answers from *)
(* the cache, whose key does not hold the flags. REGION_TTL_MULTIPLIER and    *)
(* CONTINENT_TTL_MULTIPLIER come from src/static/static.py; they are drawn    *)
(* from 1..MaxMultiplier.                                                     *)
MaxMultiplier == 4
MaxParams == 3
ScaleUnits == {<<128, 300>>, <<1, 0>>}
ScaleArgs == {[maxsize |-> u[1], ttl |-> u[2], region_path |-> b, num_params |-> n] :
                 u \in ScaleUnits, b \in BOOLEAN, n \in 1..MaxParams}
Multipliers == [region : 1..MaxMultiplier, continent : 1..MaxMultiplier]
RouterFlags == [entry_scale : BOOLEAN, entry_exponential_scale : BOOLEAN,
                duration_scale : BOOLEAN, duration_exponential_scale : BOOLEAN]

Max(a, b) == IF a >= b THEN a ELSE b

\* _scale without lines 60-63: the exponent is never applied
_scale_Linear(unit, multipliers, region_path, num_params, scale_mode, exponential_mode) ==
    IF ~scale_mode THEN unit
    ELSE unit * Max(1, IF region_path THEN multipliers.region ELSE multipliers.continent)

\* _scale, lines 54-63
_scale(unit, multipliers, region_path, num_params, scale_mode, exponential_mode) ==
    IF ~scale_mode THEN unit
    ELSE LET multiplier == Max(1, IF region_path THEN multipliers.region
                                  ELSE multipliers.continent)
         IN IF ~exponential_mode THEN unit * multiplier
            ELSE unit * (multiplier ^ num_params)

\* the body of scale, lines 67-69
ScaleBody(router, multipliers, a) ==
    <<_scale(a.maxsize, multipliers, a.region_path, a.num_params,
             router.entry_scale, router.entry_exponential_scale),
      _scale(a.ttl, multipliers, a.region_path, a.num_params,
             router.duration_scale, router.duration_exponential_scale)>>

ScaleInit ==
    /\ POOL = <<>>
    /\ is_closed = [c \in Clients |-> FALSE]
    /\ num_on_requests = [c \in Clients |-> 0]
    /\ nclients = 0
    /\ riotClientPool = {}
    /\ rq = [r \in Requests |-> IdleRequest]
    /\ sweep = IdleSweep
    /\ life = [app |-> "up", reload |-> "loop", MAX_REPETITIONS |-> InfiniteLoop,
               CURRENT_REPETITIONS |-> 0]
    /\ upstream = [c \in UsedCredentials |-> 200]
    /\ lp = LoopOff
    /\ tc = CacheOff
    /\ \E router \in RouterFlags, multipliers \in Multipliers :
          fn = [pc |-> "first", priority |-> DefaultPriority, router |-> router,
                multipliers |-> multipliers, cache |-> {}, args |-> None,
                out |-> None, hit |-> FALSE]

\* one call of scale through lru_cache (line 65): a hit returns the stored pair,
\* a miss runs the body and stores its pair under the arguments
ScaleCall(next_pc) ==
    \E a \in ScaleArgs :
       LET hits == {e \in fn.cache : e.args = a}
       IN /\ IF hits # {}
             THEN fn' = [fn EXCEPT !.pc = next_pc, !.args = a, !.hit = TRUE,
                                   !.out = (CHOOSE e \in hits : TRUE).out]
             ELSE LET out == ScaleBody(fn.router, fn.multipliers, a)
                  IN fn' = [fn EXCEPT !.pc = next_pc, !.args = a, !.hit = FALSE,
                                      !.out = out,
                                      !.cache = @ \cup {[args |-> a, out |-> out]}]
          /\ UNCHANGED NotFn

ScaleFirst == fn.pc = "first" /\ ScaleCall("again")
ScaleAgain == fn.pc = "again" /\ ScaleCall("done")

ScaleNext == ScaleFirst \/ ScaleAgain

SpecScale == ScaleInit /\ [][ScaleNext]_vars

\* what the contract gives for one dimension
ScaledDimension(unit, m, num_params, scaling, exponential) ==
    IF ~scaling THEN unit
    ELSE IF ~exponential THEN unit * m
    ELSE unit * (m ^ num_params)

\* C16: scale returns each dimension on its own: the input when scaling is off for the
\* dimension, input * m when it is on without exponential mode, input * m^num_params
\* when it is on with exponential mode, m being the region multiplier for a region
\* path and the continent multiplier otherwise; so scale(128, 300, False, 2) with
\* continent multiplier 4, exponential size and plain duration gives (2048, 1200).
C16_ScaleByDimension ==
    fn.pc \in {"again", "done"}
    => LET m == IF fn.args.region_path THEN fn.multipliers.region
                ELSE fn.multipliers.continent
       IN /\ fn.out[1] = ScaledDimension(fn.args.maxsize, m, fn.args.num_params,
                                         fn.router.entry_scale,
                                         fn.router.entry_exponential_scale)
          /\ fn.out[2] = ScaledDimension(fn.args.ttl, m, fn.args.num_params,
                                         fn.router.duration_scale,
                                         fn.router.duration_exponential_scale)
          /\ (/\ fn.args = [maxsize |-> 128, ttl |-> 300, region_path |-> FALSE,
                            num_params |-> 2]
              /\ fn.multipliers.continent = 4
              /\ fn.router = [entry_scale |-> TRUE, entry_exponential_scale |-> TRUE,
                              duration_scale |-> TRUE,
                              duration_exponential_scale |-> FALSE])
             => fn.out = <<2048, 1200>>

C16_Witness ==
    /\ fn.pc \in {"again", "done"}
    /\ fn.args = [maxsize |-> 128, ttl |-> 300, region_path |-> FALSE, num_params |-> 2]
    /\ fn.multipliers = [region |-> 2, continent |-> 4]
    /\ fn.router = [entry_scale |-> TRUE, entry_exponential_scale |-> TRUE,
                    duration_scale |-> TRUE, duration_exponential_scale |-> FALSE]
    /\ fn.out = <<2048, 1200>>


----------------------------------------------------------------------------
(* Outcomes of QueryToRiotAPI *)

\* the credentials whose response the loop has received
AttemptedByLoop == 1..lp.idx
FirstSuccess(responses) ==
    LET ok == {i \in 1..Len(responses) : IsSuccess(responses[i])}
    IN IF ok = {} THEN 0 ELSE CHOOSE i \in ok : \A j \in ok : i <= j

\* C17: every call of QueryToRiotAPI ends either returning the body of the first
\* credential that answered 2xx, or raising one error whose status is a status that an
\* attempted credential returned; it never ends with neither.
C17_BodyOrUpstreamError ==
    lp.pc = "done"
    => \/ /\ lp.out.kind = "json"
          /\ lp.out.cred = FirstSuccess(lp.responses)
       \/ /\ lp.out.kind = "HTTPException"
          /\ \E i \in AttemptedByLoop : lp.responses[i] = lp.out.status

RotatingStatuses == {HTTP_429_TOO_MANY_REQUESTS, HTTP_405_METHOD_NOT_ALLOWED}

\* C18: a 429 or 405 answer of a credential is never the error the caller gets; it only
\* moves the engine to the next credential, also when every credential answers so.
C18_RotatingStatusNotSurfaced ==
    \A r \in Requests :
       (Done(r) /\ Attempted(r))
       => ~(/\ rq[r].out.kind \notin {"json", "None"}
            /\ rq[r].out.status \in RotatingStatuses)


----------------------------------------------------------------------------
(* The selector's filter and its failures, on SpecSelect *)

Selected == fn.pc \in {"loop", "raised"}
Recognised(credentials) == SeqRange(credentials) \subseteq CREDENTIALS

\* the credentials a prefix of the table accepts: all of them for riot
AcceptedSet(entry_name) ==
    IF entry_name = "riot" THEN CREDENTIALS ELSE SeqRange(accept_paths(entry_name))

\* C19: for a list of requested credentials and a prefix of the table, the selector
\* without override returns exactly the requested credentials that are in the prefix's
\* accepted set, and with override the prefix's accepted set whatever was requested.
C19_FilterOrOverride ==
    (Selected /\ Recognised(fn.credentials) /\ fn.entry_name \in AcceptPrefixes)
    => /\ fn.result.ok
       /\ SeqRange(fn.result.list) =
             IF fn.override THEN AcceptedSet(fn.entry_name)
             ELSE SeqRange(fn.credentials) \cap AcceptedSet(fn.entry_name)

\* C20: the selector fails with HTTP 500 when the prefix is not one of the table or a
\* requested credential is not a CREDENTIALS member, and the credential loop, which
\* issues the upstream calls, is not entered.
C20_SelectorFailsWith500 ==
    (Selected /\ (fn.entry_name \notin AcceptPrefixes \/ ~Recognised(fn.credentials)))
    => /\ fn.pc = "raised"
       /\ fn.result = [ok |-> FALSE, err |-> "HTTPException",
                       status |-> HTTP_500_INTERNAL_SERVER_ERROR, list |-> <<>>]

\* the selector has raised for a prefix outside the table on recognised credentials
C20_Witness ==
    /\ fn.pc = "raised"
    /\ fn.entry_name \notin AcceptPrefixes
    /\ fn.credentials # <<>> /\ Recognised(fn.credentials)
    /\ fn.result.err = "HTTPException"
    /\ fn.result.status = HTTP_500_INTERNAL_SERVER_ERROR


----------------------------------------------------------------------------
(* What a pass of CleanUpPool leaves behind *)

\* this step is the return of line 103
SweepReturns ==
    /\ sweep'.pc = "idle" /\ ~sweep'.failed
    /\ sweep.pc = "aclose" \/ sweep'.passes = sweep.passes + 1

\* C21: when a pass of CleanUpPool returns, every client it found closed or with
\* num_on_requests = 0 is closed and out of the pool, and the pool holds exactly the
\* entries of the clients it skipped for num_on_requests > 0, as they were.
C21_SweepEvictsIdleKeepsBusy ==
    [][SweepReturns
       => /\ \A i \in 1..Len(POOL) :
                LET c == POOL[i].client
                IN IF c \in sweep'.skipped
                   THEN /\ \E j \in 1..Len(POOL') : POOL'[j] = POOL[i]
                        /\ is_closed'[c] = is_closed[c]
                        /\ num_on_requests'[c] = num_on_requests[c]
                   ELSE /\ is_closed'[c]
                        /\ c \notin PoolClients'
          /\ PoolClients' = sweep'.skipped
          /\ Len(POOL') = Cardinality(sweep'.skipped)]_vars

\* a pass has returned: it evicted a client it closed and left a client it skipped
C21_Witness ==
    /\ sweep.pc = "idle" /\ sweep.passes >= 1 /\ ~sweep.failed
    /\ sweep.skipped # {} /\ PoolClients = sweep.skipped
    /\ \E c \in Clients : Constructed(c) /\ is_closed[c] /\ ~InPool(c)


----------------------------------------------------------------------------
(* The order of the upstream attempts of one call, on SpecLoop. lp.attempts is *)
(* the list of the positions of the credential list for which _QueryToRiotAPI  *)
(* was called (line 165), in the order of the calls.                           *)

\* C22: within one call of QueryToRiotAPI the attempts are a prefix of the ordered
\* credential list: attempt k uses the k-th credential and starts only once attempt
\* k - 1 has completed, no position is attempted twice, and there are at most as many
\* attempts as credentials.
C22_AttemptsArePrefixInOrder ==
    /\ [](/\ Len(lp.attempts) <= Len(lp.responses)
          /\ \A k \in 1..Len(lp.attempts) : lp.attempts[k] = k)
    /\ [][lp.attempts' # lp.attempts
          => /\ Len(lp.attempts') = Len(lp.attempts) + 1
             /\ SubSeq(lp.attempts', 1, Len(lp.attempts)) = lp.attempts
             /\ lp.attempts # <<>> => (lp.pc = "awaiting" /\ lp.idx = Len(lp.attempts))]_vars

\* a call went through three credentials, none of which answered 2xx
C22_Witness ==
    /\ lp.pc = "done"
    /\ lp.attempts = <<1, 2, 3>>
    /\ \A i \in 1..2 : ~IsSuccess(lp.responses[i])


\* C23: once the response of a credential has a 2xx status, the call returns the body
\* of that response and calls the upstream for no later credential of the list.
C23_SuccessShortCircuits ==
    /\ [][(lp.pc = "awaiting" /\ lp.responses[lp.idx] \div 100 = 2)
          => /\ lp'.pc = "done"
             /\ lp'.out = LoopOut("json", lp.responses[lp.idx], lp.idx)
             /\ lp'.attempts = lp.attempts]_vars
    /\ [](\A i \in 1..Len(lp.attempts) :
             lp.responses[i] \div 100 = 2 => i = Len(lp.attempts))

\* the second of three credentials answered 2xx and the call is over
C23_Witness ==
    /\ lp.pc = "done"
    /\ Len(lp.responses) = 3
    /\ lp.responses[1] \div 100 # 2 /\ lp.responses[2] \div 100 = 2
    /\ lp.attempts = <<1, 2>>
    /\ lp.out = LoopOut("json", lp.responses[2], 2)


\* C24: a response with a 1xx or a 3xx status adds nothing to the recorded errors and
\* does not end the loop: the engine goes on to the next credential of the list.
C24_InformationalAndRedirectSkipped ==
    [][(lp.pc = "awaiting" /\ lp.responses[lp.idx] \div 100 \in {1, 3})
       => /\ lp'.errors = lp.errors
          /\ lp.idx < Len(lp.responses)
             => (lp'.pc = "awaiting" /\ lp'.idx = lp.idx + 1)]_vars


----------------------------------------------------------------------------
(* Defaults of the resolvers, on SpecRegion *)

\* the configured default that goes with a host pattern
DefaultFor(host_pattern) ==
    CASE host_pattern = "REGION" -> DefaultRegion
      [] host_pattern = "NORMAL_CONTINENT" -> DefaultContinent
      [] host_pattern = "MATCH_CONTINENT" -> DefaultMatchContinent

Resolving == fn.pc \in {"acquired", "raised"} /\ fn.configured

\* C25: when the caller gives no host, the resolver of _query.py takes the configured
\* default of the endpoint's host pattern (region, continent or match continent) and
\* a host the caller gives is used as it is; the resolver of _region.py, asked to
\* route a request without region, routes the configured default region.
C25_DefaultHostByPattern ==
    /\ (Resolving /\ fn.resolver = "_query" /\ fn.region = None
        /\ fn.host_pattern \in {"REGION", "NORMAL_CONTINENT", "MATCH_CONTINENT"})
       => (fn.pc = "acquired" /\ fn.result.host = DefaultFor(fn.host_pattern))
    /\ (Resolving /\ fn.resolver = "_query" /\ fn.region # None)
       => (fn.pc = "acquired" /\ fn.result.host = fn.region)
    /\ (Resolving /\ fn.resolver = "_region" /\ ~fn.bypass /\ fn.region = None
        /\ fn.src_route \in RoutedFamilies
        /\ fn.cfg_region \in RegisteredRegions(fn.src_route))
       => (fn.pc = "acquired" /\ fn.result.host = _RegionRoute(fn.src_route)[fn.cfg_region])

\* a call without host on a match-continent endpoint got the default match continent
C25_Witness ==
    /\ fn.pc = "acquired" /\ fn.resolver = "_query" /\ fn.configured
    /\ fn.region = None /\ fn.host_pattern = "MATCH_CONTINENT"
    /\ fn.result.host = DefaultMatchContinent


----------------------------------------------------------------------------
(* reload_authentication_for_router, riotapi.py:83-107, called by the reload   *)
(* task (line 123) on the configuration file as it is at that moment. A        *)
(* snapshot is named by the version of the file it was read from; 0 is the     *)
(* state before the first reload, when the attributes do not exist. The        *)
(* function has no await: the requests run before it or after it. The file is  *)
(* edited from outside the process and may lack a table the function reads.    *)
MaxVersion == 3
Routers == {"AccountV1", "ChampionMasteryV4"}       \* two routers of app.lst_routers
FileShapes == {"complete", "no_user", "no_httpx_timeout"}
Holders == {"app"} \cup Routers
Unread == [user |-> 0 - 1, cfg |-> 0 - 1]

ReloadInit ==
    /\ POOL = <<>>
    /\ is_closed = [c \in Clients |-> FALSE]
    /\ num_on_requests = [c \in Clients |-> 0]
    /\ nclients = 0
    /\ riotClientPool = {}
    /\ rq = [r \in Requests |-> IdleRequest]
    /\ sweep = IdleSweep
    /\ life = [app |-> "up", reload |-> "loop", MAX_REPETITIONS |-> InfiniteLoop,
               CURRENT_REPETITIONS |-> 0]
    /\ upstream = [c \in UsedCredentials |-> 200]
    /\ lp = LoopOff
    /\ tc = CacheOff
    /\ \E shape \in FileShapes :
          fn = [pc |-> "reload", priority |-> DefaultPriority,
                file |-> [version |-> 1, shape |-> shape],
                default_user |-> [h \in Holders |-> 0],
                default_user_cfg |-> [h \in Holders |-> 0],
                seen |-> Unread]

\* the file is rewritten
EditFile ==
    /\ fn.pc \in {"reload", "sleep", "failed"}
    /\ fn.file.version < MaxVersion
    /\ \E shape \in FileShapes :
          fn' = [fn EXCEPT !.file = [version |-> fn.file.version + 1, shape |-> shape]]
    /\ UNCHANGED NotFn

\* lines 84-107 in one piece; a missing table raises KeyError at line 87 or at line 94,
\* which ends the reload task
ReloadAuthentication ==
    /\ fn.pc = "reload"
    /\ LET v == fn.file.version IN
       CASE fn.file.shape = "no_user" ->
               fn' = [fn EXCEPT !.pc = "failed"]
         [] fn.file.shape = "no_httpx_timeout" ->
               fn' = [fn EXCEPT !.pc = "failed", !.default_user["app"] = v]
         [] OTHER ->
               fn' = [fn EXCEPT !.pc = "sleep",
                                !.default_user = [h \in Holders |-> v],
                                !.default_user_cfg = [h \in Holders |-> v]]
    /\ UNCHANGED NotFn

\* asyncio.sleep(next_trigger) of line 132 is over
ReloadSleepOver ==
    /\ fn.pc = "sleep"
    /\ fn' = [fn EXCEPT !.pc = "reload"]
    /\ UNCHANGED NotFn

\* a request reads the settings of a holder (_region.py:35-36 for a router)
ReadSettings ==
    /\ \E h \in Holders :
          fn' = [fn EXCEPT !.seen = [user |-> fn.default_user[h],
                                     cfg |-> fn.default_user_cfg[h]]]
    /\ fn'.seen # fn.seen
    /\ UNCHANGED NotFn

SnapshotNext == EditFile \/ ReloadAuthentication \/ ReloadSleepOver \/ ReadSettings

SpecReload == ReloadInit /\ [][SnapshotNext]_vars

\* C26: at every scheduling point the application and its routers hold the user, auth
\* and timeout settings of one and the same snapshot, so a request sees the complete
\* old snapshot or the complete new one.
C26_SnapshotNeverMixed ==
    /\ \A g, h \in Holders :
          /\ fn.default_user[g] = fn.default_user_cfg[h]
          /\ fn.default_user[g] = fn.default_user[h]
    /\ fn.seen.user = fn.seen.cfg


----------------------------------------------------------------------------
(* CleanUpPool interleaved with requests, on Spec *)

\* request r is handed client c on this step
Handed(r, c) == rq[r].pc = "idle" /\ rq'[r].pc # "idle" /\ rq'[r].client = c

\* C27: under every interleaving of a pass of CleanUpPool with requests, GetRiotClient
\* never hands a request a client that the pass has closed or is closing, and an
\* acquire of a new key never makes the pass fail before it is through the pool.
C27_SweepAndAcquireDoNotCollide ==
    /\ [][\A r \in Requests, c \in Clients : Handed(r, c) => ~is_closed[c]]_vars
    /\ [](~sweep.failed)


----------------------------------------------------------------------------
(* Failed calls and the cache, on SpecCache *)

\* caller i calls the cached function with arguments k on this step
CallsNow(i, k) ==
    tc.callers[i].pc = "idle" /\ tc'.callers[i].pc # "idle" /\ tc'.callers[i].key = k

\* the upstream call made for arguments k has ended in an error
LastCallFailed(k) ==
    \E j \in Callers :
       /\ tc.callers[j].key = k /\ tc.callers[j].miss
       /\ \A l \in Callers : (tc.callers[l].key = k /\ tc.callers[l].miss) => l <= j
       /\ tc.coros[j].state = "finished" /\ tc.coros[j].result = "HTTPStatusError"

\* C28: a call of a cached route function that ended in an upstream error leaves no
\* entry that serves its key: the next call with the same arguments makes an upstream
\* call of its own instead of replaying the failed one.
C28_FailureNotCached ==
    [][\A i \in Callers, k \in CacheKeys :
          (CallsNow(i, k) /\ LastCallFailed(k))
          => (tc'.callers[i].miss /\ tc'.calls[k] = tc.calls[k] + 1)]_vars


----------------------------------------------------------------------------
(* The path templates of _endpoints.py through the selector. A path is the     *)
(* sequence of its pieces: "/" and the text between two of them. A route       *)
(* function formats a template with its parameters (AccountV1.py:28) and hands *)
(* the path to QueryToRiotAPI, whose selector takes endpoint.split('/')[0]     *)
(* (_query.py:67) as the family prefix.                                        *)
EndpointParams ==
    {"{challengeId}", "{championId}", "{division}", "{encryptedSummonerId}",
     "{game}", "{leagueId}", "{matchId}", "{puuid}", "{queue}", "{summonerId}",
     "{tagLine}", "{teamId}", "{tier}", "{tournamentId}", "{userName}"}
EndpointTemplates ==
    {<<"/", "riot", "/", "account", "/", "v1", "/", "accounts", "/", "by-puuid", "/", "{puuid}">>,
     <<"/", "riot", "/", "account", "/", "v1", "/", "accounts", "/", "by-riot-id", "/", "{userName}", "/", "{tagLine}">>,
     <<"/", "riot", "/", "account", "/", "v1", "/", "active-shards", "/", "by-game", "/", "{game}", "/", "by-puuid", "/", "{puuid}">>,
     <<"/", "lol", "/", "champion-mastery", "/", "v4", "/", "champion-masteries", "/", "by-puuid", "/", "{puuid}">>,
     <<"/", "lol", "/", "champion-mastery", "/", "v4", "/", "champion-masteries", "/", "by-puuid", "/", "{puuid}", "/", "by-champion", "/", "{championId}">>,
     <<"/", "lol", "/", "champion-mastery", "/", "v4", "/", "champion-masteries", "/", "by-puuid", "/", "{puuid}", "/", "top">>,
     <<"/", "lol", "/", "champion-mastery", "/", "v4", "/", "scores", "/", "by-puuid", "/", "{puuid}">>,
     <<"/", "lol", "/", "platform", "/", "v3", "/", "champion-rotations">>,
     <<"/", "lol", "/", "challenges", "/", "v1", "/", "challenges", "/", "config">>,
     <<"/", "lol", "/", "challenges", "/", "v1", "/", "challenges", "/", "{challengeId}", "/", "config">>,
     <<"/", "lol", "/", "challenges", "/", "v1", "/", "challenges", "/", "percentiles">>,
     <<"/", "lol", "/", "challenges", "/", "v1", "/", "challenges", "/", "{challengeId}", "/", "percentiles">>,
     <<"/", "lol", "/", "challenges", "/", "v1", "/", "player-data", "/", "{puuid}">>,
     <<"/", "lol", "/", "match", "/", "v5", "/", "matches", "/", "by-puuid", "/", "{puuid}", "/", "ids">>,
     <<"/", "lol", "/", "match", "/", "v5", "/", "matches", "/", "{matchId}">>,
     <<"/", "lol", "/", "match", "/", "v5", "/", "matches", "/", "{matchId}", "/", "timeline">>,
     <<"/", "lol", "/", "clash", "/", "v1", "/", "players", "/", "by-summoner", "/", "{summonerId}">>,
     <<"/", "lol", "/", "clash", "/", "v1", "/", "teams", "/", "{teamId}">>,
     <<"/", "lol", "/", "clash", "/", "v1", "/", "tournaments">>,
     <<"/", "lol", "/", "clash", "/", "v1", "/", "tournaments", "/", "by-team", "/", "{teamId}">>,
     <<"/", "lol", "/", "clash", "/", "v1", "/", "tournaments", "/", "{tournamentId}">>,
     <<"/", "lol", "/", "league-exp", "/", "v4", "/", "entries", "/", "{queue}", "/", "{tier}", "/", "{division}">>,
     <<"/", "lol", "/", "league", "/", "v4", "/", "challengerleagues", "/", "by-queue", "/", "{queue}">>,
     <<"/", "lol", "/", "league", "/", "v4", "/", "grandmasterleagues", "/", "by-queue", "/", "{queue}">>,
     <<"/", "lol", "/", "league", "/", "v4", "/", "masterleagues", "/", "by-queue", "/", "{queue}">>,
     <<"/", "lol", "/", "league", "/", "v4", "/", "entries", "/", "by-summoner", "/", "{encryptedSummonerId}">>,
     <<"/", "lol", "/", "league", "/", "v4", "/", "entries", "/", "{queue}", "/", "{tier}", "/", "{division}">>,
     <<"/", "lol", "/", "league", "/", "v4", "/", "leagues", "/", "{leagueId}">>}
ParamValues == {"abc", "1"}

ParamsOf(template) == SeqRange(template) \cap EndpointParams

\* str.format: every field of the template is replaced by its value
FormatPath(template, values) ==
    [i \in 1..Len(template) |->
        IF template[i] \in EndpointParams THEN values[template[i]] ELSE template[i]]

\* str.split('/'): the pieces between the separators, the empty piece before a
\* leading separator included
RECURSIVE SplitOnSlash(_, _)
SplitOnSlash(path, piece) ==
    IF path = <<>> THEN <<piece>>
    ELSE IF Head(path) = "/" THEN <<piece>> \o SplitOnSlash(Tail(path), "")
    ELSE SplitOnSlash(Tail(path), Head(path))

\* _query.py:67
EntryName(endpoint) == SplitOnSlash(endpoint, "")[1]

EndpointInit ==
    /\ POOL = <<>>
    /\ is_closed = [c \in Clients |-> FALSE]
    /\ num_on_requests = [c \in Clients |-> 0]
    /\ nclients = 0
    /\ riotClientPool = {}
    /\ rq = [r \in Requests |-> IdleRequest]
    /\ sweep = IdleSweep
    /\ life = [app |-> "up", reload |-> "loop", MAX_REPETITIONS |-> InfiniteLoop,
               CURRENT_REPETITIONS |-> 0]
    /\ upstream = [c \in UsedCredentials |-> 200]
    /\ lp = LoopOff
    /\ tc = CacheOff
    /\ \E template \in EndpointTemplates, override \in BOOLEAN :
       \E values \in [ParamsOf(template) -> ParamValues] :
          fn = [pc |-> "call", priority |-> DefaultPriority, template |-> template,
                values |-> values, override |-> override, endpoint |-> <<>>,
                entry_name |-> None, result |-> PatchRaised("pending", 0)]

\* the route function formats the path and the selector runs on it with the route's
\* credentials (AccountV1.py:15)
RouteCredentials == <<"LOL", "LOR", "TFT", "VAL", "FULL">>
EndpointSelect ==
    /\ fn.pc = "call"
    /\ LET endpoint == FormatPath(fn.template, fn.values)
           entry_name == EntryName(endpoint)
           p == _PatchCredential(RouteCredentials, entry_name, fn.override)
       IN fn' = [fn EXCEPT !.pc = IF p.ok THEN "loop" ELSE "raised",
                           !.endpoint = endpoint, !.entry_name = entry_name,
                           !.result = p]
    /\ UNCHANGED NotFn

EndpointNext == EndpointSelect

SpecEndpoint == EndpointInit /\ [][EndpointNext]_vars

\* C29: for every path template of _endpoints.py, formatted with any parameter values,
\* the selector finds the family prefix of the path among riot, lol, lor, tft and val
\* and does not reject the request with the configuration error of an unknown endpoint.
C29_TemplatePrefixRecognised ==
    fn.pc # "call"
    => /\ fn.entry_name \in AcceptPrefixes
       /\ ~(fn.pc = "raised" /\ fn.result.err = "HTTPException"
            /\ fn.result.status = HTTP_500_INTERNAL_SERVER_ERROR)


----------------------------------------------------------------------------
(* The reload task over the life of the application. The event loop runs a     *)
(* task that is ready, and asyncio.sleep returns: the steps of the reload task *)
(* are taken when they stay enabled. Beside the task run the requests and the   *)
(* shutdown step; the teardown of an iteration is CleanupRiotClient (line 124), *)
(* which is part of ReloadTick. An iteration either gets through its reload    *)
(* (ReloadTick) or its reload raises (ReloadFails).                            *)
LifeNext ==
    \/ \E r \in Requests : QueryStart(r)
    \/ \E r \in Requests : QueryRespond(r)
    \/ ReloadTick
    \/ ReloadFails
    \/ ReloadWake
    \/ Shutdown

SpecLife == Init /\ [][LifeNext]_vars /\ WF_vars(ReloadTick) /\ WF_vars(ReloadWake)

\* this step is an iteration of the while: reload, teardown, and on to the sleep
ReloadIteration ==
    /\ life.reload = "loop"
    /\ life'.reload = "sleep" \/ life'.CURRENT_REPETITIONS # life.CURRENT_REPETITIONS

\* C30: once the shutdown step has run, the reload task starts no further iteration
\* and ends when its sleep is over; before shutdown, with MAX_REPETITIONS = -1, it
\* goes on repeating its iteration and its sleep and never ends.
C30_ReloadStopsAtShutdown ==
    /\ [][life.app = "down" => ~ReloadIteration]_vars
    /\ (life.app = "down") ~> (life.reload \in {"ended", "failed"})
    /\ [](life.app = "up" => (/\ life.MAX_REPETITIONS = InfiniteLoop
                              /\ life.reload \notin {"ended", "failed"}))
    /\ (life.app = "up" /\ life.reload = "sleep") ~> (life.reload = "loop" \/ life.app = "down")
    /\ (life.app = "up" /\ life.reload = "loop") ~> (life.reload = "sleep" \/ life.app = "down")

====
